---- MODULE Spec2Model ----
(***************************************************************************)
(* The KPI query tools of src/tools.py as a state machine.                 *)
(*                                                                         *)
(* The two CSV files are the stored state (kpi_csv is KPI_data_cleaned.csv,*)
(* ensemble_csv is df_ensemble.csv).  A caller invokes one tool with some  *)
(* arguments, receives the report, may invoke the same tool again with the *)
(* same arguments, and goes back to idle.                                  *)
(*                                                                         *)
(* Encodings.  A calendar day is a positive day number; NaT is the null    *)
(* that pandas' to_datetime(errors="coerce") produces.  A table cell is    *)
(* <<>> (null) or <<v>>.  An optional date argument is <<>> (not given) or *)
(* <<d>> with d the parsed day, NaT when the text does not parse.  An      *)
(* absent site or sector argument is "" (falsy in Python like None).  A    *)
(* mean is the exact fraction [s |-> sum, n |-> count].  A report is a     *)
(* record holding the values the f-string interpolates; "kind" names which *)
(* text it is.  A number printed with :.2f is held in hundredths.          *)
(*                                                                         *)
(* The chat UI of src/app.py is a second state machine (SpecUI): the       *)
(* global chat_history and the chat() calls in progress, each at its       *)
(* position in the function, with reset() able to run at any moment.       *)
(***************************************************************************)
EXTENDS Integers, Sequences, FiniteSets, TLC

VARIABLES kpi_csv, ensemble_csv, granger_lib, pc, call, report, report2,
          chat_history, handler, overlap

toolvars == <<kpi_csv, ensemble_csv, granger_lib, pc, call, report, report2>>

uivars == <<chat_history, handler, overlap>>

vars == <<toolvars, uivars>>

\* ------------------------------------------------------------------ bounds
\* Longest measurement table drawn from the free row domain.
MaxRows == 2
\* Longest anomaly table drawn from the anomaly row domain.
MaxAnomalies == 2
\* Longest generated two-KPI time series (rows).
MaxSeries == 9
\* Most messages the chat history holds before it has to be reset.
MaxHistory == 4

\* ------------------------------------------------------- program constants
\* get_site_kpi_extreme: start_date = end_date - timedelta(days=7)
ExtremeWindowDays == 7
\* get_peak_kpi_day_for_site: start_date = end_date - timedelta(days=30)
PeakWindowDays == 30
\* compare_kpi_impact: grangercausalitytests(df_gc, maxlag=2, ...)
MaxLag == 2

\* The null date of to_datetime(..., errors="coerce").
NaT == 0

Null == <<>>

IsNull(cell) == cell = <<>>

\* ---------------------------------------------------------------- domains
Days == {101, 125, 132}

\* groupby("Site_ID") sorts its keys: the sites in their lexicographic order.
SiteOrder == <<"SITE_001", "SITE_002">>

Sites == {SiteOrder[i] : i \in 1..Len(SiteOrder)}

\* The KPI columns the measurement file holds (its header without Date,
\* Site_ID and Sector_ID), in file order: two KPIs of the catalog and one
\* measured column that kpi_groups does not list.
KpiColumns == <<"RSRP", "SINR", "Jitter">>

HasColumn(k) == \E i \in 1..Len(KpiColumns) : KpiColumns[i] = k

\* ---------------------------------------------------------------- helpers
Range(s) == {s[i] : i \in 1..Len(s)}

RECURSIVE SumSeq(_)
SumSeq(s) == IF s = <<>> THEN 0 ELSE Head(s) + SumSeq(Tail(s))

\* Series.mean() of a non-empty series of numbers, as an exact fraction.
Mean(vals) == [s |-> SumSeq(vals), n |-> Len(vals)]

\* a < b, a <= b, a = b on fractions with positive denominators.
FracLt(a, b) == a.s * b.n < b.s * a.n

FracLe(a, b) == a.s * b.n <= b.s * a.n

FracEq(a, b) == a.s * b.n = b.s * a.n

Abs(x) == IF x < 0 THEN 0 - x ELSE x

\* f"{value:.Nf}": the fraction times scale (10^N), rounded to an integer,
\* ties to even.
FmtScaled(m, scale) ==
  LET a == scale * Abs(m.s)
      q == a \div m.n
      r == a % m.n
      h == IF 2 * r < m.n THEN q
           ELSE IF 2 * r > m.n THEN q + 1
           ELSE IF q % 2 = 0 THEN q ELSE q + 1
  IN IF m.s < 0 THEN 0 - h ELSE h

\* f"{value:.2f}": hundredths.
Fmt2(m) == FmtScaled(m, 100)

\* The values of column k, row by row (cells, nulls included).
Column(rows, k) == [i \in 1..Len(rows) |-> rows[i][k]]

\* Series.dropna() followed by the numbers themselves.
NonNull(cells) ==
  LET kept == SelectSeq(cells, LAMBDA c : ~IsNull(c))
  IN [i \in 1..Len(kept) |-> kept[i][1]]

\* df.dropna(subset=["Date", "Site_ID", k, ...]) after the Date coercion.
DropNa(rows, ks) ==
  SelectSeq(rows, LAMBDA r : r.Date # NaT /\ r.Site_ID # ""
                             /\ \A k \in ks : ~IsNull(r[k]))

\* df["Date"].max(): NaT on an empty frame (NaT rows are skipped).
MaxDate(rows) ==
  LET ds == {rows[i].Date : i \in 1..Len(rows)} \ {NaT}
  IN IF ds = {} THEN NaT ELSE CHOOSE d \in ds : \A e \in ds : e <= d

MinDate(rows) ==
  LET ds == {rows[i].Date : i \in 1..Len(rows)} \ {NaT}
  IN IF ds = {} THEN NaT ELSE CHOOSE d \in ds : \A e \in ds : d <= e

\* end_date - timedelta(days=n): NaT stays NaT.
MinusDays(d, n) == IF d = NaT THEN NaT ELSE d - n

\* df[(df["Date"] >= start) & (df["Date"] <= end)]: a comparison with NaT
\* is False.
Between(rows, start, end) ==
  SelectSeq(rows, LAMBDA r : start # NaT /\ end # NaT /\ r.Date # NaT
                             /\ r.Date >= start /\ r.Date <= end)

\* An exception raised inside a tool's try block.
Raise(what) == [kind |-> "exception", what |-> what]

IsException(r) == r.kind = "exception"

\* ------------------------------------------------- get_site_kpi_extreme
\* filtered.groupby("Site_ID")[kpi_name].mean(): one entry per site that has
\* rows, in sorted site order.
GroupMeans(rows, k) ==
  LET present == SelectSeq(SiteOrder,
                   LAMBDA s : \E i \in 1..Len(rows) : rows[i].Site_ID = s)
  IN [i \in 1..Len(present) |->
        [site |-> present[i],
         mean |-> Mean(NonNull(Column(
                    SelectSeq(rows, LAMBDA r : r.Site_ID = present[i]), k)))]]

\* A slip: the first entry is taken without looking for the maximum.
IdxMax_FirstEntry(ms) == 1

\* Series.idxmax() / idxmin(): the position of the first extreme entry.
IdxMax(ms) ==
  CHOOSE i \in 1..Len(ms) :
    /\ \A j \in 1..Len(ms) : FracLe(ms[j].mean, ms[i].mean)
    /\ \A j \in 1..(i - 1) : FracLt(ms[j].mean, ms[i].mean)

\* A slip: idxmax() in the "lowest" branch too.
IdxMin_UsesMax(ms) == IdxMax(ms)

IdxMin(ms) ==
  CHOOSE i \in 1..Len(ms) :
    /\ \A j \in 1..Len(ms) : FracLe(ms[i].mean, ms[j].mean)
    /\ \A j \in 1..(i - 1) : FracLt(ms[i].mean, ms[j].mean)

\* The rows left after line 43's dropna.
ExtremeFrame(rows, kpi_name) == DropNa(rows, {kpi_name})

ExtremeEnd(rows, kpi_name, end_date) ==
  IF end_date # <<>> THEN end_date[1] ELSE MaxDate(ExtremeFrame(rows, kpi_name))

ExtremeStart(rows, kpi_name, start_date, end_date) ==
  IF start_date # <<>> THEN start_date[1]
  ELSE MinusDays(ExtremeEnd(rows, kpi_name, end_date), ExtremeWindowDays)

ExtremeFiltered(rows, kpi_name, start_date, end_date) ==
  Between(ExtremeFrame(rows, kpi_name),
          ExtremeStart(rows, kpi_name, start_date, end_date),
          ExtremeEnd(rows, kpi_name, end_date))

\* The body of the try block.
ExtremeBody(rows, kpi_name, extreme_type, start_date, end_date) ==
  IF ~HasColumn(kpi_name) THEN Raise("KeyError")
  ELSE
    LET e == ExtremeEnd(rows, kpi_name, end_date)
        s == ExtremeStart(rows, kpi_name, start_date, end_date)
        filtered == ExtremeFiltered(rows, kpi_name, start_date, end_date)
        avg_kpi == GroupMeans(filtered, kpi_name)
        lowest == extreme_type = "lowest"
        i == IF lowest THEN IdxMin(avg_kpi) ELSE IdxMax(avg_kpi)
    IN IF filtered = <<>>
       THEN [kind |-> "no_data_between", kpi_name |-> kpi_name,
             start |-> s, end |-> e]
       ELSE [kind |-> "site_extreme", kpi_name |-> kpi_name,
             start |-> s, end |-> e, site_id |-> avg_kpi[i].site,
             direction |-> IF lowest THEN "lowest" ELSE "highest",
             value |-> Fmt2(avg_kpi[i].mean)]

\* A slip: no try/except around the body, so its exception leaves the tool.
get_site_kpi_extreme_Uncaught(rows, kpi_name, extreme_type, start_date, end_date) ==
  ExtremeBody(rows, kpi_name, extreme_type, start_date, end_date)

\* except Exception as e: return f"Error processing KPI data: {str(e)}"
get_site_kpi_extreme(rows, kpi_name, extreme_type, start_date, end_date) ==
  LET r == ExtremeBody(rows, kpi_name, extreme_type, start_date, end_date)
  IN IF IsException(r)
     THEN [kind |-> "error", prefix |-> "Error processing KPI data",
           what |-> r.what]
     ELSE r

\* --------------------------------------------- get_peak_kpi_day_for_site
PeakFrame(rows, site_id, kpi_name) ==
  SelectSeq(DropNa(rows, {kpi_name}), LAMBDA r : r.Site_ID = site_id)

PeakEnd(rows, site_id, kpi_name, end_date) ==
  IF end_date # <<>> THEN end_date[1]
  ELSE MaxDate(PeakFrame(rows, site_id, kpi_name))

PeakStart(rows, site_id, kpi_name, start_date, end_date) ==
  IF start_date # <<>> THEN start_date[1]
  ELSE MinusDays(PeakEnd(rows, site_id, kpi_name, end_date), PeakWindowDays)

PeakFiltered(rows, site_id, kpi_name, start_date, end_date) ==
  Between(PeakFrame(rows, site_id, kpi_name),
          PeakStart(rows, site_id, kpi_name, start_date, end_date),
          PeakEnd(rows, site_id, kpi_name, end_date))

\* A slip: the last row holding the maximum instead of the first.
RowIdxMax_Last(rows, k) ==
  CHOOSE i \in 1..Len(rows) :
    /\ \A j \in 1..Len(rows) : rows[j][k][1] <= rows[i][k][1]
    /\ \A j \in (i + 1)..Len(rows) : rows[j][k][1] < rows[i][k][1]

\* site_df[kpi_name].idxmax() / idxmin(): the first row holding the extreme.
RowIdxMax(rows, k) ==
  CHOOSE i \in 1..Len(rows) :
    /\ \A j \in 1..Len(rows) : rows[j][k][1] <= rows[i][k][1]
    /\ \A j \in 1..(i - 1) : rows[j][k][1] < rows[i][k][1]

RowIdxMin(rows, k) ==
  CHOOSE i \in 1..Len(rows) :
    /\ \A j \in 1..Len(rows) : rows[i][k][1] <= rows[j][k][1]
    /\ \A j \in 1..(i - 1) : rows[i][k][1] < rows[j][k][1]

\* A slip: the date window is applied before the site is looked up, so a
\* site without rows gets the "between" message.
PeakBody_WindowFirst(rows, site_id, kpi_name, extreme_type, start_date, end_date) ==
  IF ~HasColumn(kpi_name) THEN Raise("KeyError")
  ELSE
    LET e == PeakEnd(rows, site_id, kpi_name, end_date)
        s == PeakStart(rows, site_id, kpi_name, start_date, end_date)
        windowed == PeakFiltered(rows, site_id, kpi_name, start_date, end_date)
        lowest == extreme_type = "lowest"
        i == IF lowest THEN RowIdxMin(windowed, kpi_name)
             ELSE RowIdxMax(windowed, kpi_name)
    IN IF windowed = <<>>
       THEN [kind |-> "no_data_for_site_between", site_id |-> site_id,
             start |-> s, end |-> e]
       ELSE [kind |-> "peak_day", site_id |-> site_id, kpi_name |-> kpi_name,
             label |-> IF lowest THEN "lowest" ELSE "highest",
             date |-> windowed[i].Date,
             value |-> Fmt2([s |-> windowed[i][kpi_name][1], n |-> 1]),
             start |-> s, end |-> e]

PeakBody(rows, site_id, kpi_name, extreme_type, start_date, end_date) ==
  IF ~HasColumn(kpi_name) THEN Raise("KeyError")
  ELSE
    LET site_df == PeakFrame(rows, site_id, kpi_name)
        e == PeakEnd(rows, site_id, kpi_name, end_date)
        s == PeakStart(rows, site_id, kpi_name, start_date, end_date)
        windowed == PeakFiltered(rows, site_id, kpi_name, start_date, end_date)
        lowest == extreme_type = "lowest"
        i == IF lowest THEN RowIdxMin(windowed, kpi_name)
             ELSE RowIdxMax(windowed, kpi_name)
    IN IF site_df = <<>>
       THEN [kind |-> "no_data_for_site", site_id |-> site_id]
       ELSE IF windowed = <<>>
       THEN [kind |-> "no_data_for_site_between", site_id |-> site_id,
             start |-> s, end |-> e]
       ELSE [kind |-> "peak_day", site_id |-> site_id, kpi_name |-> kpi_name,
             label |-> IF lowest THEN "lowest" ELSE "highest",
             date |-> windowed[i].Date,
             value |-> Fmt2([s |-> windowed[i][kpi_name][1], n |-> 1]),
             start |-> s, end |-> e]

\* except Exception as e: return f"Error processing request: {str(e)}"
get_peak_kpi_day_for_site(rows, site_id, kpi_name, extreme_type, start_date, end_date) ==
  LET r == PeakBody(rows, site_id, kpi_name, extreme_type, start_date, end_date)
  IN IF IsException(r)
     THEN [kind |-> "error", prefix |-> "Error processing request",
           what |-> r.what]
     ELSE r

\* ---------------------------------------------------- compare_kpi_impact
\* df.sort_values("Date"): ascending; rows of equal date keep their order
\* (the default sort is an insertion sort on frames this small).
RECURSIVE SortByDate(_)
SortByDate(rows) ==
  IF rows = <<>> THEN <<>>
  ELSE LET i == CHOOSE a \in 1..Len(rows) :
                  /\ \A j \in 1..Len(rows) : rows[a].Date <= rows[j].Date
                  /\ \A j \in 1..(a - 1) : rows[a].Date < rows[j].Date
           rest == [j \in 1..(Len(rows) - 1) |->
                      IF j < i THEN rows[j] ELSE rows[j + 1]]
       IN <<rows[i]>> \o SortByDate(rest)

\* Lines 183-192: dropna, the site filter and the two date filters.
ImpactFiltered(rows, kpi_x, kpi_y, site_id, start_date, end_date) ==
  LET df0 == DropNa(rows, {kpi_x, kpi_y})
      df1 == IF site_id # "" THEN SelectSeq(df0, LAMBDA r : r.Site_ID = site_id)
             ELSE df0
      df2 == IF start_date # <<>>
             THEN SelectSeq(df1, LAMBDA r : r.Date >= start_date[1])
             ELSE df1
  IN IF end_date # <<>>
     THEN SelectSeq(df2, LAMBDA r : r.Date <= end_date[1])
     ELSE df2

\* Lines 197-198: the date-sorted series of the two KPIs.
ImpactSeries(rows, kpi_x, kpi_y, site_id, start_date, end_date) ==
  SortByDate(ImpactFiltered(rows, kpi_x, kpi_y, site_id, start_date, end_date))

\* valid[valid["dX"] > 0]: the positions (from the second row on) where
\* kpi_x rose against the row before.
RisingX(series, kpi_x) ==
  {i \in 2..Len(series) : series[i][kpi_x][1] - series[i - 1][kpi_x][1] > 0}

\* rising_x[rising_x["dY"] > 0]
RisingBoth(series, kpi_x, kpi_y) ==
  {i \in RisingX(series, kpi_x) :
     series[i][kpi_y][1] - series[i - 1][kpi_y][1] > 0}

\* directional_ratio, as an exact fraction (0 when kpi_x never rises).
DirectionalRatio(series, kpi_x, kpi_y) ==
  IF Cardinality(RisingX(series, kpi_x)) = 0 THEN [s |-> 0, n |-> 1]
  ELSE [s |-> Cardinality(RisingBoth(series, kpi_x, kpi_y)),
        n |-> Cardinality(RisingX(series, kpi_x))]

\* conditional_prob > 0.45
Likely(ratio) == 20 * ratio.s > 9 * ratio.n

\* Lines 208-221: directional_comment.
DirectionalComment(series, kpi_x, kpi_y, site_id) ==
  LET ratio == DirectionalRatio(series, kpi_x, kpi_y)
  IN IF Cardinality(RisingX(series, kpi_x)) = 0
     THEN [text |-> "No positive changes", pct |-> 0, scope |-> "",
           label |-> ""]
     ELSE [text |-> "When x increases, y increases",
           pct |-> FmtScaled([s |-> 100 * ratio.s, n |-> ratio.n], 10),
           scope |-> IF site_id # "" THEN site_id ELSE "(all sites)",
           label |-> IF Likely(ratio) THEN "likely" ELSE "weak"]

\* grangercausalitytests(df_gc, maxlag=2): statsmodels raises ValueError
\* ("Insufficient observations") unless the series has more than
\* 3 * maxlag + 1 rows.  On a long enough series its verdict (the smallest
\* ssr_ftest p-value against 0.05, or its error on a degenerate regression)
\* is the library's: granger_lib holds it for the stored dataset.
GrangerTest(series, lib) ==
  IF Len(series) <= 3 * MaxLag + 1 THEN Raise("ValueError: Insufficient observations")
  ELSE IF lib = "infeasible" THEN Raise("InfeasibleTestError")
  ELSE [kind |-> "granger", verdict |-> lib]

ImpactBody(rows, lib, kpi_x, kpi_y, site_id, start_date, end_date) ==
  IF ~HasColumn(kpi_x) \/ ~HasColumn(kpi_y) THEN Raise("KeyError")
  ELSE IF (start_date # <<>> /\ start_date[1] = NaT)
          \/ (end_date # <<>> /\ end_date[1] = NaT)
  THEN Raise("ValueError: date does not parse")
  ELSE
    LET df == ImpactFiltered(rows, kpi_x, kpi_y, site_id, start_date, end_date)
        series == SortByDate(df)
        g == GrangerTest(series, lib)
    IN IF df = <<>>
       THEN [kind |-> "no_data_for_pair", kpi_x |-> kpi_x, kpi_y |-> kpi_y]
       ELSE IF kpi_x = kpi_y
       THEN Raise("ValueError: two columns set to one")
       ELSE IF IsException(g) THEN g
       ELSE [kind |-> "impact", kpi_x |-> kpi_x, kpi_y |-> kpi_y,
             directional |-> DirectionalComment(series, kpi_x, kpi_y, site_id),
             granger |-> g.verdict]

\* except Exception as e:
\*     return f"Error evaluating directional KPI impact: {str(e)}"
compare_kpi_impact(rows, lib, kpi_x, kpi_y, site_id, start_date, end_date) ==
  LET r == ImpactBody(rows, lib, kpi_x, kpi_y, site_id, start_date, end_date)
  IN IF IsException(r)
     THEN [kind |-> "error",
           prefix |-> "Error evaluating directional KPI impact",
           what |-> r.what]
     ELSE r

\* -------------------------------------------------- describe_kpi_dataset
\* A slip: the rows are counted where the code counts distinct entries.
NUnique_CountsRows(rows, field) == Len(rows)

\* Series.nunique(): the distinct non-null entries.
NUnique(rows, field) == Cardinality({rows[i][field] : i \in 1..Len(rows)} \ {""})

SeqMax(vals) == CHOOSE v \in Range(vals) : \A w \in Range(vals) : w <= v

SeqMin(vals) == CHOOSE v \in Range(vals) : \A w \in Range(vals) : v <= w

\* One KPI's lines of the summary: the missing count and mean, min and max
\* with :.2f (<<>> stands for the "nan" of a column with no value at all).
KpiStats(rows, k) ==
  LET vals == NonNull(Column(rows, k))
  IN [kpi |-> k,
      missing |-> Len(rows) - Len(vals),
      mean |-> IF vals = <<>> THEN <<>> ELSE <<Fmt2(Mean(vals))>>,
      min |-> IF vals = <<>> THEN <<>> ELSE <<Fmt2([s |-> SeqMin(vals), n |-> 1])>>,
      max |-> IF vals = <<>> THEN <<>> ELSE <<Fmt2([s |-> SeqMax(vals), n |-> 1])>>]

DescribeBody(rows) ==
  IF rows = <<>> THEN [kind |-> "dataset_empty"]
  ELSE [kind |-> "dataset_overview",
        date_min |-> MinDate(rows), date_max |-> MaxDate(rows),
        sites |-> NUnique(rows, "Site_ID"),
        sectors |-> NUnique(rows, "Sector_ID"),
        kpis |-> KpiColumns,
        stats |-> [i \in 1..Len(KpiColumns) |-> KpiStats(rows, KpiColumns[i])]]

\* except Exception as e: return f"Failed to describe KPI dataset: {str(e)}"
describe_kpi_dataset(rows) ==
  LET r == DescribeBody(rows)
  IN IF IsException(r)
     THEN [kind |-> "error", prefix |-> "Failed to describe KPI dataset",
           what |-> r.what]
     ELSE r

\* ---------------------------------------------------------- kpi_anomalies
\* The KPI names the tools' docstrings list as valid (lines 33-35).
KpiCatalog ==
  <<"RSRP", "SINR", "DL_Throughput", "RTT", "UL_Throughput", "CPU_Utilization",
    "Call_Drop_Rate", "Active_Users", "Handover_Success_Rate", "Packet_Loss">>

\* kpi_groups (lines 389-394), in dictionary order.
kpi_groups ==
  << [group |-> "signal", kpis |-> <<"RSRP", "SINR">>],
     [group |-> "latency", kpis |-> <<"DL_Throughput", "UL_Throughput", "RTT">>],
     [group |-> "access",
      kpis |-> <<"Active_Users", "CPU_Utilization", "Handover_Success_Rate">>],
     [group |-> "stability", kpis |-> <<"Packet_Loss", "Call_Drop_Rate">>] >>

\* The loop of lines 396-401: the first group listing kpi_name, 0 when none
\* does (group stays "unknown" and Kpis is never bound).
GroupIndex(kpi_name) ==
  IF \E g \in 1..Len(kpi_groups) : kpi_name \in Range(kpi_groups[g].kpis)
  THEN CHOOSE g \in 1..Len(kpi_groups) :
         /\ kpi_name \in Range(kpi_groups[g].kpis)
         /\ \A h \in 1..(g - 1) : kpi_name \notin Range(kpi_groups[h].kpis)
  ELSE 0

\* The entity and date filters shared by the anomaly frame and the base
\* frame (lines 334-341 and 365-372).
EntityDateFilter(rows, site_id, sector_id, start_date, end_date) ==
  LET d1 == IF site_id # "" THEN SelectSeq(rows, LAMBDA r : r.Site_ID = site_id)
            ELSE rows
      d2 == IF sector_id # ""
            THEN SelectSeq(d1, LAMBDA r : r.Sector_ID = sector_id) ELSE d1
      d3 == IF start_date # <<>>
            THEN SelectSeq(d2, LAMBDA r : start_date[1] # NaT /\ r.Date # NaT
                                          /\ r.Date >= start_date[1])
            ELSE d2
  IN IF end_date # <<>>
     THEN SelectSeq(d3, LAMBDA r : end_date[1] # NaT /\ r.Date # NaT
                                   /\ r.Date <= end_date[1])
     ELSE d3

\* Lines 329-341: the anomaly rows of kpi_name after every filter.
AnomalyFrame(ens, kpi_name, site_id, sector_id, start_date, end_date) ==
  EntityDateFilter(SelectSeq(ens, LAMBDA r : r.KPI = kpi_name),
                   site_id, sector_id, start_date, end_date)

\* Lines 344-354: the date with the most anomaly rows (the earliest such
\* date: groupby sorts the dates and idxmax takes the first maximum);
\* <<>> when there is none.
PeakAnomalyNote(df) ==
  LET ds == {df[i].Date : i \in 1..Len(df)} \ {NaT}
      cnt(d) == Cardinality({i \in 1..Len(df) : df[i].Date = d})
      best == CHOOSE d \in ds :
                \A e \in ds : cnt(e) < cnt(d) \/ (cnt(e) = cnt(d) /\ d <= e)
  IN IF ds = {} THEN <<>> ELSE <<[date |-> best, count |-> cnt(best)]>>

\* Lines 360-372: the measurement rows the baseline is taken over.
BaseFrame(rows, kpi_name, site_id, sector_id, start_date, end_date) ==
  EntityDateFilter(SelectSeq(rows, LAMBDA r : ~IsNull(r[kpi_name])),
                   site_id, sector_id, start_date, end_date)

\* Line 379: anomalies[kpi_name].dropna()
AnomalyValues(df, kpi_name) == NonNull(Column(df, kpi_name))

\* A slip: >= where the code has >.
AboveAvg_OrEqual(vals, kpi_avg) ==
  SelectSeq(vals, LAMBDA v : FracLe(kpi_avg, [s |-> v, n |-> 1]))

\* Lines 381-382: the two parts of the anomaly values.
AboveAvg(vals, kpi_avg) ==
  SelectSeq(vals, LAMBDA v : FracLt(kpi_avg, [s |-> v, n |-> 1]))

BelowAvg(vals, kpi_avg) ==
  SelectSeq(vals, LAMBDA v : FracLe([s |-> v, n |-> 1], kpi_avg))

\* Lines 385-386 with 441-442: the mean of a part, or the text "None".
PartMean(part) ==
  IF part = <<>> THEN [text |-> "None", mean |-> [s |-> 0, n |-> 1]]
  ELSE [text |-> "float", mean |-> Mean(part)]

\* A slip: every other KPI of the catalog is looked up, not only those of
\* the group of kpi_name.
RelatedCounts_AllKpis(ens, df, kpi_name, Kpis, site_id, sector_id) ==
  LET related_kpis == SelectSeq(KpiCatalog, LAMBDA k : k # kpi_name)
      main_dates == {df[i].Date : i \in 1..Len(df)}
      df_full == EntityDateFilter(ens, site_id, sector_id, <<>>, <<>>)
      df_same_days == SelectSeq(df_full, LAMBDA r : r.Date \in main_dates)
      count(k) == Len(SelectSeq(df_same_days, LAMBDA r : r.KPI = k))
      hit == SelectSeq(related_kpis, LAMBDA k : count(k) > 0)
  IN [i \in 1..Len(hit) |-> [kpi |-> hit[i], times |-> count(hit[i])]]

\* Lines 404-432: the same-group KPIs with anomaly rows on the main dates.
RelatedCounts(ens, df, kpi_name, Kpis, site_id, sector_id) ==
  LET related_kpis == SelectSeq(Kpis, LAMBDA k : k # kpi_name)
      main_dates == {df[i].Date : i \in 1..Len(df)}
      df_full == EntityDateFilter(ens, site_id, sector_id, <<>>, <<>>)
      df_same_days == SelectSeq(df_full, LAMBDA r : r.Date \in main_dates)
      count(k) == Len(SelectSeq(df_same_days, LAMBDA r : r.KPI = k))
      hit == SelectSeq(related_kpis, LAMBDA k : count(k) > 0)
  IN [i \in 1..Len(hit) |-> [kpi |-> hit[i], times |-> count(hit[i])]]

\* A slip: the base table is loaded and checked before the anomaly frame is
\* tested for emptiness.
AnomaliesBody_BaseFirst(ens, rows, kpi_name, site_id, sector_id, start_date, end_date) ==
  LET df == AnomalyFrame(ens, kpi_name, site_id, sector_id, start_date, end_date)
      df_base == BaseFrame(rows, kpi_name, site_id, sector_id, start_date, end_date)
  IN IF ~HasColumn(kpi_name) THEN Raise("KeyError")
     ELSE IF df_base = <<>> THEN [kind |-> "no_base_data"]
     ELSE IF df = <<>> THEN [kind |-> "no_anomaly_data", kpi_name |-> kpi_name]
     ELSE [kind |-> "anomaly_summary", kpi_name |-> kpi_name]

AnomaliesBody(ens, rows, kpi_name, site_id, sector_id, start_date, end_date) ==
  LET df == AnomalyFrame(ens, kpi_name, site_id, sector_id, start_date, end_date)
      df_base == BaseFrame(rows, kpi_name, site_id, sector_id, start_date, end_date)
      kpi_avg == Mean(NonNull(Column(df_base, kpi_name)))
      anomaly_values == AnomalyValues(df, kpi_name)
      g == GroupIndex(kpi_name)
  IN IF df = <<>> THEN [kind |-> "no_anomaly_data", kpi_name |-> kpi_name]
     ELSE IF ~HasColumn(kpi_name) THEN Raise("KeyError")
     ELSE IF df_base = <<>> THEN [kind |-> "no_base_data"]
     ELSE IF g = 0 THEN Raise("UnboundLocalError: Kpis")
     ELSE [kind |-> "anomaly_summary", kpi_name |-> kpi_name,
           anomaly_count |-> Len(anomaly_values),
           baseline |-> Fmt2(kpi_avg),
           avg_above |-> PartMean(AboveAvg(anomaly_values, kpi_avg)),
           avg_below |-> PartMean(BelowAvg(anomaly_values, kpi_avg)),
           group |-> kpi_groups[g].group,
           related |-> kpi_groups[g].kpis,
           peak |-> PeakAnomalyNote(df),
           cooccurring |-> RelatedCounts(ens, df, kpi_name, kpi_groups[g].kpis,
                                         site_id, sector_id)]

\* except Exception as e: return f"Error analyzing KPI anomalies: {str(e)}"
kpi_anomalies(ens, rows, kpi_name, site_id, sector_id, start_date, end_date) ==
  LET r == AnomaliesBody(ens, rows, kpi_name, site_id, sector_id, start_date, end_date)
  IN IF IsException(r)
     THEN [kind |-> "error", prefix |-> "Error analyzing KPI anomalies",
           what |-> r.what]
     ELSE r

\* ------------------------------------------------------------ the datasets
KpiRow(d, site, sector, rsrp, sinr) ==
  [Date |-> d, Site_ID |-> site, Sector_ID |-> sector, RSRP |-> rsrp,
   SINR |-> sinr, Jitter |-> <<1>>]

\* A row of df_ensemble.csv: a measurement row with the flagged KPI's name.
AnomalyRow(d, site, sector, kpi, rsrp, sinr) ==
  [Date |-> d, Site_ID |-> site, Sector_ID |-> sector, KPI |-> kpi,
   RSRP |-> rsrp, SINR |-> sinr, Jitter |-> <<1>>]

SeqsUpTo(S, n) == UNION {[1..k -> S] : k \in 0..n}

KpiValues == {0 - 1, 2}

Cells == {Null} \cup {<<v>> : v \in KpiValues}

SectorA(site) == IF site = "SITE_001" THEN "SITE_001_SECTOR_A" ELSE "SITE_002_SECTOR_A"

\* Free measurement rows: any day, either site, RSRP a value or (at the
\* first site) missing.
FreeRows ==
  {KpiRow(d, site, SectorA(site), c, <<1>>) : d \in Days, site \in Sites, c \in Cells}
  \ {KpiRow(d, "SITE_002", SectorA("SITE_002"), Null, <<1>>) : d \in Days}

FreeTables == SeqsUpTo(FreeRows, MaxRows)

\* A generated series of one site, one row per day: kpi RSRP rises on the
\* first up_both + up_x steps and falls afterwards, SINR rises on the first
\* up_both steps and falls afterwards.  Stored in date order or reversed.
SeriesTable(up_both, up_x, down, reversed) ==
  LET n == 1 + up_both + up_x + down
      min(a, b) == IF a < b THEN a ELSE b
      max(a, b) == IF a < b THEN b ELSE a
      x(i) == min(i - 1, up_both + up_x) - max(0, i - 1 - up_both - up_x)
      y(i) == min(i - 1, up_both) - max(0, i - 1 - up_both)
      row(i) == KpiRow(100 + i, "SITE_001", "SITE_001_SECTOR_A", <<x(i)>>, <<y(i)>>)
  IN [i \in 1..n |-> IF reversed THEN row(n + 1 - i) ELSE row(i)]

SeriesTables ==
  LET steps == 0..(MaxSeries - 1)
  IN {SeriesTable(t[1], t[2], t[3], rev) :
        t \in {u \in steps \X steps \X steps : u[1] + u[2] + u[3] < MaxSeries},
        rev \in BOOLEAN}

GrangerVerdicts == {"significant", "not_significant", "infeasible"}

\* Anomaly rows: RSRP anomalies of the first site with a value or (in its
\* second sector) without one, anomalies of a KPI of the same group (SINR,
\* at either site) and of another group (RTT), and one of the column that
\* is in no group.
AnomalyRows ==
  UNION {
    {AnomalyRow(d, "SITE_001", "SITE_001_SECTOR_A", "RSRP", <<v>>, <<1>>) : v \in KpiValues}
    \cup {AnomalyRow(d, "SITE_001", "SITE_001_SECTOR_A", "SINR", <<1>>, <<1>>),
          AnomalyRow(d, "SITE_001", "SITE_001_SECTOR_A", "RTT", <<1>>, <<1>>)}
    : d \in {125, 132}}
  \cup {AnomalyRow(132, "SITE_001", "SITE_001_SECTOR_B", "RSRP", Null, <<1>>),
        AnomalyRow(132, "SITE_002", "SITE_002_SECTOR_A", "SINR", <<1>>, <<1>>),
        AnomalyRow(132, "SITE_001", "SITE_001_SECTOR_A", "Jitter", <<1>>, <<1>>)}

AnomalyTables == SeqsUpTo(AnomalyRows, MaxAnomalies)

\* Measurement tables the anomaly tables are paired with.
BaseTables ==
  { <<>>,
    <<KpiRow(125, "SITE_001", "SITE_001_SECTOR_A", <<0 - 1>>, <<1>>),
      KpiRow(132, "SITE_001", "SITE_001_SECTOR_B", <<2>>, Null),
      KpiRow(132, "SITE_002", "SITE_002_SECTOR_A", <<0 - 1>>, <<1>>)>> }

\* ------------------------------------------------------------ the chat UI
\* The chat() calls that can be in progress at once (the handlers run on
\* worker threads; all of them share the module-level chat_history).
Handlers == {1, 2}

UserInputs == {"q1", "q2"}

HumanMessage(content) == [type |-> "human", content |-> content]

AIMessage(content) == [type |-> "ai", content |-> content]

\* The reply to the request carrying user_input: the server's "output", or
\* the text of the exception the request ended with.
Reply(ok, user_input) ==
  [kind |-> IF ok THEN "output" ELSE "error", input |-> user_input]

NoReply == [kind |-> "none", input |-> ""]

IdleHandler ==
  [pc |-> "idle", user_input |-> "", serialized_history |-> <<>>,
   result |-> NoReply]

InFlight == {h \in Handlers : handler[h].pc # "idle"}

\* chat_history.append(HumanMessage(content=user_input))
AppendHuman(history, user_input) == Append(history, HumanMessage(user_input))

\* A slip: the reply of a failed request is not recorded.
AppendAI_SkipsErrors(history, result) ==
  IF result.kind = "error" THEN history ELSE Append(history, AIMessage(result))

\* chat_history.append(AIMessage(content=result))
AppendAI(history, result) == Append(history, AIMessage(result))

InitUI ==
  /\ chat_history = <<>>
  /\ handler = [h \in Handlers |-> IdleHandler]
  /\ overlap = FALSE

\* chat(), lines 16-21: the history as it is now goes into the payload.
\* overlap records that a call started while another was in progress.
chat_serialize(h, x) ==
  /\ handler[h].pc = "idle"
  /\ Len(chat_history) + 2 * Cardinality(InFlight) + 2 <= MaxHistory
  /\ handler' = [handler EXCEPT ![h] =
                   [pc |-> "posting", user_input |-> x,
                    serialized_history |-> chat_history, result |-> NoReply]]
  /\ overlap' = (overlap \/ InFlight # {})
  /\ UNCHANGED <<chat_history, toolvars>>

\* chat(), lines 23-27: the request returns the output or raises, and then
\* result is the error text.
chat_post(h) ==
  /\ handler[h].pc = "posting"
  /\ \E ok \in BOOLEAN :
       handler' = [handler EXCEPT ![h].pc = "responded",
                                  ![h].result = Reply(ok, handler[h].user_input)]
  /\ UNCHANGED <<chat_history, overlap, toolvars>>

\* chat(), line 30.
chat_append_human(h) ==
  /\ handler[h].pc = "responded"
  /\ chat_history' = AppendHuman(chat_history, handler[h].user_input)
  /\ handler' = [handler EXCEPT ![h].pc = "human_appended"]
  /\ UNCHANGED <<overlap, toolvars>>

\* chat(), lines 31-33: the reply is appended and the call returns.
chat_append_ai(h) ==
  /\ handler[h].pc = "human_appended"
  /\ chat_history' = AppendAI(chat_history, handler[h].result)
  /\ handler' = [handler EXCEPT ![h] = IdleHandler]
  /\ UNCHANGED <<overlap, toolvars>>

\* reset(), lines 35-38: the global is bound to a new empty list.
reset ==
  /\ chat_history' = <<>>
  /\ overlap' = (InFlight # {})
  /\ UNCHANGED <<handler, toolvars>>

chat ==
  \E h \in Handlers :
    \/ \E x \in UserInputs : chat_serialize(h, x)
    \/ chat_post(h)
    \/ chat_append_human(h)
    \/ chat_append_ai(h)

NextUI ==
  \/ chat
  \/ reset

\* --------------------------------------------------------- the state machine
NoReport == [kind |-> "none"]

NoCall ==
  [op |-> "", kpi_name |-> "", kpi_y |-> "", extreme_type |-> "", site_id |-> "",
   sector_id |-> "", start_date |-> <<>>, end_date |-> <<>>]

\* One tool invocation: the tool named by c.op on the stored files.
Invoke(c) ==
  CASE c.op = "get_site_kpi_extreme" ->
         get_site_kpi_extreme(kpi_csv, c.kpi_name, c.extreme_type,
                              c.start_date, c.end_date)
    [] c.op = "get_peak_kpi_day_for_site" ->
         get_peak_kpi_day_for_site(kpi_csv, c.site_id, c.kpi_name,
                                   c.extreme_type, c.start_date, c.end_date)
    [] c.op = "compare_kpi_impact" ->
         compare_kpi_impact(kpi_csv, granger_lib, c.kpi_name, c.kpi_y,
                            c.site_id, c.start_date, c.end_date)
    [] c.op = "describe_kpi_dataset" -> describe_kpi_dataset(kpi_csv)
    [] c.op = "kpi_anomalies" ->
         kpi_anomalies(ensemble_csv, kpi_csv, c.kpi_name, c.site_id,
                       c.sector_id, c.start_date, c.end_date)

Init ==
  /\ \/ /\ kpi_csv \in FreeTables
        /\ ensemble_csv = <<>>
        /\ granger_lib = "not_significant"
     \/ /\ kpi_csv \in SeriesTables
        /\ ensemble_csv = <<>>
        /\ granger_lib \in GrangerVerdicts
        /\ Len(kpi_csv) <= 3 * MaxLag + 1 => granger_lib = "not_significant"
     \/ /\ kpi_csv \in BaseTables
        /\ ensemble_csv \in AnomalyTables
        /\ granger_lib = "not_significant"
  /\ pc = "idle"
  /\ call = NoCall
  /\ report = NoReport
  /\ report2 = NoReport
  /\ InitUI

\* A slip: get_site_kpi_extreme writes its cleaned frame back to the file.
KpiCsvAfter_WritesBack(c) ==
  IF c.op = "get_site_kpi_extreme" /\ HasColumn(c.kpi_name)
  THEN ExtremeFrame(kpi_csv, c.kpi_name) ELSE kpi_csv

\* The measurement file after a tool has run: every tool only reads it
\* (pd.read_csv into a local frame; no to_csv anywhere).
KpiCsvAfter(c) == kpi_csv

\* The anomaly file after a tool has run: only read as well.
EnsembleCsvAfter(c) == ensemble_csv

\* The caller sends c and receives the tool's report.
Send(c) ==
  /\ pc = "idle"
  /\ call' = c
  /\ report' = Invoke(c)
  /\ report2' = NoReport
  /\ pc' = "returned"
  /\ kpi_csv' = KpiCsvAfter(c)
  /\ ensemble_csv' = EnsembleCsvAfter(c)
  /\ UNCHANGED <<granger_lib, uivars>>

CallExtreme ==
  \E k \in {"RSRP", "RTT"}, t \in {"highest", "lowest"},
     s \in {<<>>, <<125>>}, e \in {<<>>, <<125>>, <<NaT>>} :
    /\ (k = "RTT" \/ e = <<NaT>>) => (t = "highest" /\ s = <<>>)
    /\ k = "RTT" => e = <<>>
    /\ Send([NoCall EXCEPT !.op = "get_site_kpi_extreme", !.kpi_name = k,
                           !.extreme_type = t, !.start_date = s, !.end_date = e])

CallPeak ==
  \E site \in {"SITE_001", "SITE_002", "SITE_009"}, k \in {"RSRP", "RTT"},
     t \in {"highest", "lowest"},
     s \in {<<>>, <<125>>}, e \in {<<>>, <<125>>, <<NaT>>} :
    /\ (k = "RTT" \/ site # "SITE_001" \/ e = <<NaT>>) => (t = "highest" /\ s = <<>>)
    /\ (k = "RTT" \/ site # "SITE_001") => e = <<>>
    /\ k = "RTT" => site = "SITE_001"
    /\ Send([NoCall EXCEPT !.op = "get_peak_kpi_day_for_site", !.site_id = site,
                           !.kpi_name = k, !.extreme_type = t,
                           !.start_date = s, !.end_date = e])

CallCompare ==
  \E kx \in {"RSRP", "RTT"}, ky \in {"SINR", "RSRP"},
     site \in {"", "SITE_001", "SITE_002"},
     s \in {<<>>, <<102>>}, e \in {<<>>, <<125>>, <<NaT>>} :
    /\ (kx = "RTT" \/ ky = "RSRP" \/ site # "") => (s = <<>> /\ e = <<>>)
    /\ (kx = "RTT" \/ ky = "RSRP") => site = ""
    /\ e = <<NaT>> => s = <<>>
    /\ kx = "RTT" => ky = "SINR"
    /\ Send([NoCall EXCEPT !.op = "compare_kpi_impact", !.kpi_name = kx, !.kpi_y = ky,
                           !.site_id = site, !.start_date = s, !.end_date = e])

CallDescribe ==
  Send([NoCall EXCEPT !.op = "describe_kpi_dataset"])

CallAnomalies ==
  \E k \in {"RSRP", "SINR", "RTT", "Call_Drop_Rate", "Jitter"},
     ent \in {<<"", "">>, <<"SITE_001", "">>, <<"SITE_001", "SITE_001_SECTOR_A">>,
              <<"SITE_002", "">>, <<"", "SITE_001_SECTOR_B">>},
     win \in {<<<<101>>, <<132>>>>, <<<<132>>, <<132>>>>, <<<<>>, <<>>>>,
              <<<<NaT>>, <<132>>>>} :
    /\ k # "RSRP" => (ent = <<"", "">> /\ win = <<<<101>>, <<132>>>>)
    /\ win \in {<<<<>>, <<>>>>, <<<<NaT>>, <<132>>>>} => ent = <<"", "">>
    /\ Send([NoCall EXCEPT !.op = "kpi_anomalies", !.kpi_name = k,
                           !.site_id = ent[1], !.sector_id = ent[2],
                           !.start_date = win[1], !.end_date = win[2]])

\* The caller sends the same call once more.
Repeat ==
  /\ pc = "returned"
  /\ report2' = Invoke(call)
  /\ pc' = "repeated"
  /\ kpi_csv' = KpiCsvAfter(call)
  /\ ensemble_csv' = EnsembleCsvAfter(call)
  /\ UNCHANGED <<granger_lib, call, report, uivars>>

\* The caller is done with the report.
Done ==
  /\ pc \in {"returned", "repeated"}
  /\ pc' = "idle"
  /\ call' = NoCall
  /\ report' = NoReport
  /\ report2' = NoReport
  /\ UNCHANGED <<kpi_csv, ensemble_csv, granger_lib, uivars>>

Next ==
  \/ CallExtreme
  \/ CallPeak
  \/ CallCompare
  \/ CallDescribe
  \/ CallAnomalies
  \/ Repeat
  \/ Done

Spec == Init /\ [][Next]_vars

\* The chat UI on its own: no tool call is in progress and the files are
\* empty.
InitChat ==
  /\ kpi_csv = <<>>
  /\ ensemble_csv = <<>>
  /\ granger_lib = "not_significant"
  /\ pc = "idle"
  /\ call = NoCall
  /\ report = NoReport
  /\ report2 = NoReport
  /\ InitUI

SpecUI == InitChat /\ [][NextUI]_vars

\* ================================================================ claims
\* What the claims speak of, stated over row positions of the stored file
\* rather than over the frames the tools build.

Called(op) == pc # "idle" /\ call.op = op

\* The rows with a parsed date.
Dated(rows) == {i \in 1..Len(rows) : rows[i].Date # NaT}

\* The rows with a parsed date, a site and a value of k.
Usable(rows, k) ==
  {i \in Dated(rows) : rows[i].Site_ID # "" /\ ~IsNull(rows[i][k])}

OfSite(rows, I, site) == {i \in I : rows[i].Site_ID = site}

LatestOf(rows, I) ==
  IF I = {} THEN NaT
  ELSE CHOOSE d \in {rows[i].Date : i \in I} : \A j \in I : rows[j].Date <= d

\* The start of the window: the argument, else `days` before the end.
WindowStart(given, e, days) ==
  IF given # <<>> THEN given[1] ELSE IF e = NaT THEN NaT ELSE e - days

InWindow(rows, I, s, e) ==
  {i \in I : s # NaT /\ e # NaT /\ s <= rows[i].Date /\ rows[i].Date <= e}

RECURSIVE IdxSum(_, _, _)
IdxSum(I, rows, k) ==
  IF I = {} THEN 0
  ELSE LET i == CHOOSE x \in I : TRUE
       IN rows[i][k][1] + IdxSum(I \ {i}, rows, k)

\* The mean of k over the rows I (all holding a value of k).
AvgOver(rows, I, k) == [s |-> IdxSum(I, rows, k), n |-> Cardinality(I)]

SitesOf(rows, I) == {rows[i].Site_ID : i \in I}

\* `site` has the highest (lowest) mean of k over the rows I, and `value`
\* is that mean as printed.
IsExtremeSite(rows, I, k, direction, site, value) ==
  /\ site \in SitesOf(rows, I)
  /\ \A t \in SitesOf(rows, I) :
       IF direction = "lowest"
       THEN FracLe(AvgOver(rows, OfSite(rows, I, site), k),
                   AvgOver(rows, OfSite(rows, I, t), k))
       ELSE FracLe(AvgOver(rows, OfSite(rows, I, t), k),
                   AvgOver(rows, OfSite(rows, I, site), k))
  /\ value = Fmt2(AvgOver(rows, OfSite(rows, I, site), k))

\* Row r passes the entity and date filters of call c (a filter that is
\* not given passes every row; an unparsable bound passes none).
PassesFilters(r, c) ==
  /\ c.site_id # "" => r.Site_ID = c.site_id
  /\ c.sector_id # "" => r.Sector_ID = c.sector_id
  /\ c.start_date # <<>> =>
       (c.start_date[1] # NaT /\ r.Date # NaT /\ r.Date >= c.start_date[1])
  /\ c.end_date # <<>> =>
       (c.end_date[1] # NaT /\ r.Date # NaT /\ r.Date <= c.end_date[1])

\* The report is one of the texts a tool returns.
ReportKinds ==
  {"error", "no_data_between", "site_extreme", "no_data_for_site",
   "no_data_for_site_between", "peak_day", "no_data_for_pair", "impact",
   "dataset_empty", "dataset_overview", "no_anomaly_data", "no_base_data",
   "anomaly_summary"}

\* C1: every tool call ends by returning a report text; no exception raised
\* inside a tool (a missing column, a failing statistical test, an unbound
\* name) reaches the caller, on the first call or on a repeated one.
C1_ToolsAreTotal ==
  /\ pc # "idle" => report.kind \in ReportKinds
  /\ pc = "repeated" => report2.kind \in ReportKinds

\* C1 witness: a tool whose body raised (the requested column is not in the
\* file) has returned its error text.
C1_Witness ==
  /\ Called("get_site_kpi_extreme")
  /\ ~HasColumn(call.kpi_name)
  /\ report.kind = "error"

\* C2: when no anomaly row is left after the KPI, entity and date filters,
\* kpi_anomalies returns exactly the "No anomaly data found" message for
\* that KPI: no other section, and no error text.
C2_NoAnomalyRowsGivesTheMessage ==
  (Called("kpi_anomalies")
     /\ ~\E i \in 1..Len(ensemble_csv) :
           /\ ensemble_csv[i].KPI = call.kpi_name
           /\ PassesFilters(ensemble_csv[i], call))
  => report = [kind |-> "no_anomaly_data", kpi_name |-> call.kpi_name]

\* C2 witness: the anomaly file holds rows, none of them is of the requested
\* KPI (one that is in neither file), and the message was returned.
C2_Witness ==
  /\ Called("kpi_anomalies")
  /\ ensemble_csv # <<>>
  /\ call.kpi_name = "Call_Drop_Rate"
  /\ report.kind = "no_anomaly_data"

\* C3 as stated: the default end_date is the latest date of the dataset;
\* when some row lies in the window the reported site has the extreme mean
\* over the non-null rows of the window, else the result is the "No data
\* available" message with the KPI and both dates.
C3_Original ==
  (Called("get_site_kpi_extreme") /\ HasColumn(call.kpi_name)) =>
    LET k == call.kpi_name
        e == IF call.end_date # <<>> THEN call.end_date[1]
             ELSE LatestOf(kpi_csv, Dated(kpi_csv))
        s == WindowStart(call.start_date, e, ExtremeWindowDays)
        W == InWindow(kpi_csv, Dated(kpi_csv), s, e)
    IN IF W # {}
       THEN /\ report.kind = "site_extreme"
            /\ IsExtremeSite(kpi_csv, W \cap Usable(kpi_csv, k), k,
                             call.extreme_type, report.site_id, report.value)
       ELSE report = [kind |-> "no_data_between", kpi_name |-> k,
                      start |-> s, end |-> e]

\* C3 amended: the rows that count are those with a date, a site and a
\* value of the KPI.  The default end_date is the latest date among these
\* rows and the default start_date is 7 days before end_date; when one of
\* them lies in [start_date, end_date] the reported site has the highest
\* (lowest) mean of the KPI over them and the printed value is that mean,
\* else the result is the "No data available" message with the KPI and both
\* dates.
C3_ExtremeSiteOverUsableRows ==
  (Called("get_site_kpi_extreme") /\ HasColumn(call.kpi_name)) =>
    LET k == call.kpi_name
        e == IF call.end_date # <<>> THEN call.end_date[1]
             ELSE LatestOf(kpi_csv, Usable(kpi_csv, k))
        s == WindowStart(call.start_date, e, ExtremeWindowDays)
        W == InWindow(kpi_csv, Usable(kpi_csv, k), s, e)
    IN IF W # {}
       THEN /\ report.kind = "site_extreme"
            /\ report.start = s /\ report.end = e
            /\ report.direction = call.extreme_type
            /\ IsExtremeSite(kpi_csv, W, k, call.extreme_type,
                             report.site_id, report.value)
       ELSE report = [kind |-> "no_data_between", kpi_name |-> k,
                      start |-> s, end |-> e]

\* C3 witness: with both dates defaulted, two sites have rows in the window
\* and the second one was reported as the highest.
C3_Witness ==
  /\ Called("get_site_kpi_extreme")
  /\ call.start_date = <<>> /\ call.end_date = <<>>
  /\ call.extreme_type = "highest"
  /\ report.kind = "site_extreme"
  /\ report.site_id = "SITE_002"
  /\ \E i \in Usable(kpi_csv, call.kpi_name) :
       /\ kpi_csv[i].Site_ID = "SITE_001"
       /\ report.start <= kpi_csv[i].Date /\ kpi_csv[i].Date <= report.end

\* All sites with rows in the reported window have the same mean.
AllAveragesTied(rows, k, s, e) ==
  LET W == InWindow(rows, Usable(rows, k), s, e)
  IN \A t, u \in SitesOf(rows, W) :
       FracEq(AvgOver(rows, OfSite(rows, W, t), k),
              AvgOver(rows, OfSite(rows, W, u), k))

Opposite(extreme_type) == IF extreme_type = "lowest" THEN "highest" ELSE "lowest"

\* C4: when get_site_kpi_extreme succeeds, the same call with the other
\* extreme_type reports a different site, unless all per-site averages of
\* the window are equal.
C4_HighestAndLowestDiffer ==
  (Called("get_site_kpi_extreme") /\ report.kind = "site_extreme") =>
    LET other == get_site_kpi_extreme(kpi_csv, call.kpi_name,
                                      Opposite(call.extreme_type),
                                      call.start_date, call.end_date)
    IN /\ other.kind = "site_extreme"
       /\ other.site_id # report.site_id
          \/ AllAveragesTied(kpi_csv, call.kpi_name, report.start, report.end)

\* C4 witness: a successful call over a window in which the averages are
\* not all equal.
C4_Witness ==
  /\ Called("get_site_kpi_extreme")
  /\ report.kind = "site_extreme"
  /\ ~AllAveragesTied(kpi_csv, call.kpi_name, report.start, report.end)

\* Row i holds the highest (lowest) value of k among the rows W.
IsExtremeRow(rows, W, k, extreme_type, i) ==
  /\ i \in W
  /\ \A j \in W : IF extreme_type = "lowest"
                  THEN rows[i][k][1] <= rows[j][k][1]
                  ELSE rows[j][k][1] <= rows[i][k][1]

\* The report names the first row of W holding the extreme value of k.
ReportsFirstExtremeRow(rows, W, k, extreme_type, r) ==
  \E i \in W :
    /\ IsExtremeRow(rows, W, k, extreme_type, i)
    /\ \A j \in W : IsExtremeRow(rows, W, k, extreme_type, j) => i <= j
    /\ r.date = rows[i].Date
    /\ r.value = Fmt2([s |-> rows[i][k][1], n |-> 1])

\* C5 as stated: the default end_date is the latest date present for the
\* site; the reported date lies in [start_date, end_date] and the value is
\* the extreme of the KPI among the site's rows of that window, the first
\* such row being reported.
C5_Original ==
  (Called("get_peak_kpi_day_for_site") /\ report.kind = "peak_day") =>
    LET k == call.kpi_name
        S == OfSite(kpi_csv, Dated(kpi_csv), call.site_id)
        e == IF call.end_date # <<>> THEN call.end_date[1]
             ELSE LatestOf(kpi_csv, S)
        s == WindowStart(call.start_date, e, PeakWindowDays)
        W == InWindow(kpi_csv, S \cap Usable(kpi_csv, k), s, e)
    IN /\ s <= report.date /\ report.date <= e
       /\ ReportsFirstExtremeRow(kpi_csv, W, k, call.extreme_type, report)

\* C5 amended: the rows that count are the site's rows with a date and a
\* value of the KPI.  The default end_date is the latest date among them
\* and the default start_date is 30 days before end_date; whenever a date
\* and a value are reported, the date lies in [start_date, end_date], and
\* date and value are those of the first of these rows in the window that
\* holds the maximum (minimum) of the KPI.
C5_PeakDayOverUsableRows ==
  (Called("get_peak_kpi_day_for_site") /\ report.kind = "peak_day") =>
    LET k == call.kpi_name
        S == OfSite(kpi_csv, Usable(kpi_csv, k), call.site_id)
        e == IF call.end_date # <<>> THEN call.end_date[1]
             ELSE LatestOf(kpi_csv, S)
        s == WindowStart(call.start_date, e, PeakWindowDays)
        W == InWindow(kpi_csv, S, s, e)
    IN /\ report.site_id = call.site_id
       /\ report.start = s /\ report.end = e
       /\ report.label = call.extreme_type
       /\ s <= report.date /\ report.date <= e
       /\ ReportsFirstExtremeRow(kpi_csv, W, k, call.extreme_type, report)

\* C5 witness: with both dates defaulted, the highest value is held by two
\* rows of the site on different days, and a day was reported.
C5_Witness ==
  /\ Called("get_peak_kpi_day_for_site")
  /\ call.start_date = <<>> /\ call.end_date = <<>>
  /\ call.extreme_type = "highest"
  /\ report.kind = "peak_day"
  /\ \E i, j \in Usable(kpi_csv, call.kpi_name) :
       /\ kpi_csv[i].Site_ID = call.site_id /\ kpi_csv[j].Site_ID = call.site_id
       /\ kpi_csv[i].Date # kpi_csv[j].Date
       /\ kpi_csv[i].Date >= report.start /\ kpi_csv[j].Date >= report.start
       /\ kpi_csv[i][call.kpi_name] = kpi_csv[j][call.kpi_name]
       /\ Fmt2([s |-> kpi_csv[i][call.kpi_name][1], n |-> 1]) = report.value

\* C6 as stated: the "No data found for site" message is returned exactly
\* when the site has no row at all in the measurement table.
C6_Original ==
  (Called("get_peak_kpi_day_for_site") /\ HasColumn(call.kpi_name)) =>
    (report.kind = "no_data_for_site"
       <=> ~\E i \in 1..Len(kpi_csv) : kpi_csv[i].Site_ID = call.site_id)

\* C6 amended: the "No data found for site" message is returned exactly
\* when the site has no row with a date and a value of the KPI, whatever the
\* date arguments are; when it has such rows and none lies in the window,
\* the "between" message with the site and both dates is returned.
C6_NotFoundBeforeDates ==
  (Called("get_peak_kpi_day_for_site") /\ HasColumn(call.kpi_name)) =>
    LET k == call.kpi_name
        S == OfSite(kpi_csv, Usable(kpi_csv, k), call.site_id)
        e == IF call.end_date # <<>> THEN call.end_date[1]
             ELSE LatestOf(kpi_csv, S)
        s == WindowStart(call.start_date, e, PeakWindowDays)
        W == InWindow(kpi_csv, S, s, e)
    IN /\ report.kind = "no_data_for_site" <=> S = {}
       /\ S = {} => report = [kind |-> "no_data_for_site", site_id |-> call.site_id]
       /\ (S # {} /\ W = {}) =>
            report = [kind |-> "no_data_for_site_between",
                      site_id |-> call.site_id, start |-> s, end |-> e]

\* C6 witness: the site's only rows lack the KPI value, an end_date was
\* given, and the "No data found for site" message was returned.
C6_Witness ==
  /\ Called("get_peak_kpi_day_for_site")
  /\ call.end_date # <<>>
  /\ \E i \in 1..Len(kpi_csv) : kpi_csv[i].Site_ID = call.site_id
  /\ report.kind = "no_data_for_site"

\* A compare_kpi_impact call whose columns exist and differ, whose date
\* arguments parse, and whose filters leave at least one row.
ImpactHasRows ==
  /\ Called("compare_kpi_impact")
  /\ HasColumn(call.kpi_name) /\ HasColumn(call.kpi_y)
  /\ call.kpi_name # call.kpi_y
  /\ call.start_date # <<NaT>> /\ call.end_date # <<NaT>>
  /\ \E i \in Usable(kpi_csv, call.kpi_name) \cap Usable(kpi_csv, call.kpi_y) :
       PassesFilters(kpi_csv[i], [call EXCEPT !.sector_id = ""])

\* C7 as stated: the directional ratio lies in [0, 1]; when kpi_x never
\* rises from one row of the sorted series to the next, the ratio is 0 and
\* the returned report holds the "No positive changes" message.
C7_Original ==
  ImpactHasRows =>
    LET series == ImpactSeries(kpi_csv, call.kpi_name, call.kpi_y,
                               call.site_id, call.start_date, call.end_date)
        ratio == DirectionalRatio(series, call.kpi_name, call.kpi_y)
    IN /\ 0 <= ratio.s /\ ratio.s <= ratio.n
       /\ (\A i \in 2..Len(series) :
             series[i][call.kpi_name][1] <= series[i - 1][call.kpi_name][1])
          => /\ ratio.s = 0
             /\ report.kind = "impact"
             /\ report.directional.text = "No positive changes"

\* C8 as stated: whenever the filters leave at least one row, the returned
\* report holds both the directional section and the Granger section.
C8_Original ==
  ImpactHasRows => report.kind = "impact"

\* C9: the anomaly values with a value above the baseline mean and those at
\* or below it are reported separately: a part without values is printed as
\* "None", a part with values as its mean, and when both have values
\* mean(above) > baseline >= mean(below).
C9_PartitionAroundBaseline ==
  (Called("kpi_anomalies") /\ report.kind = "anomaly_summary") =>
    LET k == call.kpi_name
        B == {i \in 1..Len(kpi_csv) :
                ~IsNull(kpi_csv[i][k]) /\ PassesFilters(kpi_csv[i], call)}
        baseline == AvgOver(kpi_csv, B, k)
        A == {i \in 1..Len(ensemble_csv) :
                /\ ensemble_csv[i].KPI = k
                /\ PassesFilters(ensemble_csv[i], call)
                /\ ~IsNull(ensemble_csv[i][k])}
        above == {i \in A : FracLt(baseline, [s |-> ensemble_csv[i][k][1], n |-> 1])}
        below == A \ above
    IN /\ report.avg_above.text = "None" <=> above = {}
       /\ report.avg_below.text = "None" <=> below = {}
       /\ above # {} => FracEq(report.avg_above.mean, AvgOver(ensemble_csv, above, k))
       /\ below # {} => FracEq(report.avg_below.mean, AvgOver(ensemble_csv, below, k))
       /\ (above # {} /\ below # {}) =>
            /\ FracLt(baseline, report.avg_above.mean)
            /\ FracLe(report.avg_below.mean, baseline)

\* C9 witness: a summary in which both parts hold values.
C9_Witness ==
  /\ Called("kpi_anomalies")
  /\ report.kind = "anomaly_summary"
  /\ report.avg_above.text = "float"
  /\ report.avg_below.text = "float"

WithoutUnparsableDates(c) ==
  [c EXCEPT !.start_date = IF @ = <<NaT>> THEN <<>> ELSE @,
            !.end_date = IF @ = <<NaT>> THEN <<>> ELSE @]

\* C11 as stated: in the four tools that take start_date / end_date, a date
\* argument that does not parse is treated as absent: the report is the one
\* the same call without that argument gets, and it is not an error report.
C11_Original ==
  (/\ pc # "idle"
   /\ call.op \in {"get_site_kpi_extreme", "get_peak_kpi_day_for_site",
                   "compare_kpi_impact", "kpi_anomalies"}
   /\ (call.start_date = <<NaT>> \/ call.end_date = <<NaT>>))
  => /\ report = Invoke(WithoutUnparsableDates(call))
     /\ report.kind # "error"

\* The kpi_anomalies call at hand found anomaly rows and baseline rows: the
\* anomaly count, the baseline and the partition means can be computed.
AnomalyStatisticsComputed ==
  /\ Called("kpi_anomalies")
  /\ HasColumn(call.kpi_name)
  /\ \E i \in 1..Len(ensemble_csv) :
       ensemble_csv[i].KPI = call.kpi_name /\ PassesFilters(ensemble_csv[i], call)
  /\ \E i \in 1..Len(kpi_csv) :
       ~IsNull(kpi_csv[i][call.kpi_name]) /\ PassesFilters(kpi_csv[i], call)

\* C12 as stated: once the anomaly count, the baseline and the partition
\* means have been computed, the report holds these sections whatever
\* happens in the co-occurrence step; it is not a single error text.
C12_Original ==
  AnomalyStatisticsComputed =>
    /\ report.kind = "anomaly_summary"
    /\ report.anomaly_count =
         Cardinality({i \in 1..Len(ensemble_csv) :
                        /\ ensemble_csv[i].KPI = call.kpi_name
                        /\ PassesFilters(ensemble_csv[i], call)
                        /\ ~IsNull(ensemble_csv[i][call.kpi_name])})

\* The rows of the stored measurement table holding a value of column k.
WithValue(k) == {i \in 1..Len(kpi_csv) : ~IsNull(kpi_csv[i][k])}

\* C13: on a table with rows, describe_kpi_dataset reports the earliest and
\* the latest date of the table, the number of distinct sites and of
\* distinct sectors, and every column other than Date, Site_ID and
\* Sector_ID as a KPI with its missing count, mean, minimum and maximum; on
\* a table without rows it returns the EmptyDataset message.
C13_DescribeCoversTheTable ==
  Called("describe_kpi_dataset") =>
    IF kpi_csv = <<>> THEN report = [kind |-> "dataset_empty"]
    ELSE
      LET rows == 1..Len(kpi_csv)
          columns == DOMAIN kpi_csv[1] \ {"Date", "Site_ID", "Sector_ID"}
      IN /\ report.kind = "dataset_overview"
         /\ \E i \in rows : kpi_csv[i].Date = report.date_min
         /\ \E i \in rows : kpi_csv[i].Date = report.date_max
         /\ \A i \in rows : /\ report.date_min <= kpi_csv[i].Date
                            /\ kpi_csv[i].Date <= report.date_max
         /\ report.sites = Cardinality({kpi_csv[i].Site_ID : i \in rows})
         /\ report.sectors = Cardinality({kpi_csv[i].Sector_ID : i \in rows})
         /\ Range(report.kpis) = columns
         /\ Len(report.kpis) = Cardinality(columns)
         /\ Len(report.stats) = Len(report.kpis)
         /\ \A n \in 1..Len(report.kpis) :
              LET k == report.kpis[n]
                  st == report.stats[n]
                  V == WithValue(k)
              IN /\ st.kpi = k
                 /\ st.missing = Cardinality(rows \ V)
                 /\ V # {} =>
                      /\ st.mean = <<Fmt2(AvgOver(kpi_csv, V, k))>>
                      /\ \E i \in V :
                           /\ st.min = <<Fmt2([s |-> kpi_csv[i][k][1], n |-> 1])>>
                           /\ \A j \in V : kpi_csv[i][k][1] <= kpi_csv[j][k][1]
                      /\ \E i \in V :
                           /\ st.max = <<Fmt2([s |-> kpi_csv[i][k][1], n |-> 1])>>
                           /\ \A j \in V : kpi_csv[j][k][1] <= kpi_csv[i][k][1]

\* C13 witness: an overview of a table with more rows than sites, more
\* sectors than sites, a missing value and two different values of a KPI.
C13_Witness ==
  /\ Called("describe_kpi_dataset")
  /\ report.kind = "dataset_overview"
  /\ report.sites < Len(kpi_csv)
  /\ report.sites < report.sectors
  /\ report.date_min < report.date_max
  /\ \E n \in 1..Len(report.stats) : report.stats[n].missing > 0
  /\ \E n \in 1..Len(report.stats) : report.stats[n].min # report.stats[n].max

\* KPIs x and y are listed in one group of kpi_groups.
SameGroup(x, y) ==
  \E g \in 1..Len(kpi_groups) :
    x \in Range(kpi_groups[g].kpis) /\ y \in Range(kpi_groups[g].kpis)

\* The anomaly rows of KPI x that match the site and sector arguments of the
\* call (whatever their date) and fall on a date of a filtered anomaly of
\* the KPI asked for.
CoOccurringRows(x) ==
  LET main_dates == {ensemble_csv[i].Date :
                       i \in {j \in 1..Len(ensemble_csv) :
                                /\ ensemble_csv[j].KPI = call.kpi_name
                                /\ PassesFilters(ensemble_csv[j], call)}}
      entity == [call EXCEPT !.start_date = <<>>, !.end_date = <<>>]
  IN {i \in 1..Len(ensemble_csv) :
        /\ ensemble_csv[i].KPI = x
        /\ PassesFilters(ensemble_csv[i], entity)
        /\ ensemble_csv[i].Date \in main_dates}

GroupsOf(x) == {g \in 1..Len(kpi_groups) : x \in Range(kpi_groups[g].kpis)}

\* C15 as stated: every KPI of the catalog is in exactly one group, and a
\* summary for a catalog KPI names that group and lists as related KPIs the
\* other KPIs of the group, not kpi_name itself.
C15_Original ==
  /\ \A n \in 1..Len(KpiCatalog) : Cardinality(GroupsOf(KpiCatalog[n])) = 1
  /\ (/\ Called("kpi_anomalies")
      /\ report.kind = "anomaly_summary"
      /\ call.kpi_name \in Range(KpiCatalog))
     => \E g \in GroupsOf(call.kpi_name) :
          /\ report.group = kpi_groups[g].group
          /\ Range(report.related) = Range(kpi_groups[g].kpis) \ {call.kpi_name}

\* C16 as stated: whenever kpi_x rises on at least one row of the sorted
\* series, the directional section of the report states the ratio as a
\* percentage and a label; the label is "likely" exactly when the ratio is
\* above 0.45 and "weak" otherwise.
C16_Original ==
  LET series == ImpactSeries(kpi_csv, call.kpi_name, call.kpi_y,
                             call.site_id, call.start_date, call.end_date)
      rising_x == {i \in 2..Len(series) :
                     series[i][call.kpi_name][1] > series[i - 1][call.kpi_name][1]}
      rising_both == {i \in rising_x :
                        series[i][call.kpi_y][1] > series[i - 1][call.kpi_y][1]}
      nx == Cardinality(rising_x)
      nb == Cardinality(rising_both)
  IN (ImpactHasRows /\ rising_x # {}) =>
       /\ report.kind = "impact"
       /\ report.directional.text = "When x increases, y increases"
       /\ report.directional.pct = FmtScaled([s |-> 100 * nb, n |-> nx], 10)
       /\ report.directional.label = IF 100 * nb > 45 * nx THEN "likely" ELSE "weak"

\* The history is a run of pairs: a human message followed by the reply to
\* the request that carried that input (the output or the error text).
Alternates(history) ==
  /\ Len(history) % 2 = 0
  /\ \A i \in 1..Len(history) :
       IF i % 2 = 1
       THEN history[i].type = "human"
       ELSE /\ history[i].type = "ai"
            /\ history[i].content.kind \in {"output", "error"}
            /\ history[i].content.input = history[i - 1].content

\* C17: as long as no call starts while another is in progress, the history
\* alternates human message and reply whenever no chat call is in progress;
\* a chat call sends the history as it was when it started, without the
\* current input, and then appends the human message and the reply, also
\* when the request failed; a reset leaves the history empty.
C17_HistoryAlternates ==
  /\ [](~overlap =>
          /\ InFlight = {} => Alternates(chat_history)
          /\ \A h \in InFlight :
               LET c == handler[h]
               IN /\ Alternates(c.serialized_history)
                  /\ c.pc \in {"posting", "responded"} =>
                       chat_history = c.serialized_history
                  /\ c.pc = "human_appended" =>
                       chat_history = Append(c.serialized_history,
                                             HumanMessage(c.user_input)))
  /\ [][/\ \A h \in Handlers :
             (~overlap /\ handler[h].pc = "human_appended" /\ handler'[h].pc = "idle")
             => chat_history' = handler[h].serialized_history
                                  \o <<HumanMessage(handler[h].user_input),
                                       AIMessage(handler[h].result)>>
        /\ (handler' = handler /\ chat_history' # chat_history)
             => chat_history' = <<>>]_vars

\* C17 witness: two chat calls have returned one after the other, one of
\* them after a failed request, and no call is in progress.
C17_Witness ==
  /\ ~overlap
  /\ InFlight = {}
  /\ Len(chat_history) = 4
  /\ \E i \in 1..Len(chat_history) :
       chat_history[i].type = "ai" /\ chat_history[i].content.kind = "error"

====
